---- MODULE Spec2Model ----
(***************************************************************************)
(* A model of src/tictactoe.py: the 3x3 board, the rules (player, actions, *)
(* result, winner, terminal, utility) and the minimax search.              *)
(*                                                                         *)
(* A board is a list of three rows, each a list of three cells; here a     *)
(* function 0..2 -> (0..2 -> Marks), indexed board[i][j] as in the source. *)
(* An action (i, j) is the pair <<i, j>>; its components are action[1] and *)
(* action[2].                                                              *)
(***************************************************************************)
EXTENDS Integers, FiniteSets, Sequences, TLC

\* ------------------------------------------------------------------------
\* Constants of the program (tictactoe.py:9-11)
\* ------------------------------------------------------------------------
\* None among the marks and the exception names, which are strings.
None == "None"
\* None among the actions and the boards, which are tuples and functions.
NoneObj == <<>>
X == "X"
O == "O"
EMPTY == None

\* math.inf (tictactoe.py:154), as an integer above every utility; -math.inf
\* is -inf.
inf == 2

\* range(3)
Range3 == 0..2
Marks == {X, O, EMPTY}
Cells == Range3 \X Range3
Rows == [Range3 -> Marks]
Boards == [Range3 -> Rows]

\* ------------------------------------------------------------------------
\* Rules engine
\* ------------------------------------------------------------------------
initial_state == [i \in Range3 |-> [j \in Range3 |-> EMPTY]]

\* row.count(m)
count(row, m) == Cardinality({j \in Range3 : row[j] = m})

\* sum(row.count(m) for row in board)
sum_count(board, m) == count(board[0], m) + count(board[1], m) + count(board[2], m)

\* The test of line 33 never false: X whatever the counts.
player_first(board) == X

\* X moves only when strictly behind.
player_strict(board) ==
    LET x_count == sum_count(board, X)
        o_count == sum_count(board, O)
    IN  IF x_count < o_count THEN X ELSE O

player(board) ==
    LET x_count == sum_count(board, X)
        o_count == sum_count(board, O)
    IN  IF x_count <= o_count THEN X ELSE O

\* The test of line 46 dropped: every cell is possible.
actions_all(board) == {a \in Cells : TRUE}

\* The inner loop one column short: for j in range(2).
actions_short(board) == {a \in Range3 \X (0..1) : board[a[1]][a[2]] = EMPTY}

\* The indices of the cell exchanged: board[j][i] tested for (i, j).
actions_transposed(board) == {a \in Cells : board[a[2]][a[1]] = EMPTY}

actions(board) == {a \in Cells : board[a[1]][a[2]] = EMPTY}

\* row[0] == row[1] == row[2] and row[0] is not EMPTY
three(a, b, c) == a = b /\ b = c /\ a # EMPTY

\* Only the rows checked: the loops of the columns and the diagonals dropped.
winner_rows_only(board) ==
    IF three(board[0][0], board[0][1], board[0][2]) THEN board[0][0]
    ELSE IF three(board[1][0], board[1][1], board[1][2]) THEN board[1][0]
    ELSE IF three(board[2][0], board[2][1], board[2][2]) THEN board[2][0]
    ELSE None

\* The loop of the columns dropped: rows and diagonals only.
winner_no_columns(board) ==
    IF three(board[0][0], board[0][1], board[0][2]) THEN board[0][0]
    ELSE IF three(board[1][0], board[1][1], board[1][2]) THEN board[1][0]
    ELSE IF three(board[2][0], board[2][1], board[2][2]) THEN board[2][0]
    ELSE IF three(board[0][0], board[1][1], board[2][2]) THEN board[0][0]
    ELSE IF three(board[0][2], board[1][1], board[2][0]) THEN board[0][2]
    ELSE None

\* The rows checked bottom-up, and then the others in the order of the source.
winner_bottom_up(board) ==
    IF three(board[2][0], board[2][1], board[2][2]) THEN board[2][0]
    ELSE IF three(board[1][0], board[1][1], board[1][2]) THEN board[1][0]
    ELSE IF three(board[0][0], board[0][1], board[0][2]) THEN board[0][0]
    ELSE IF three(board[0][0], board[1][0], board[2][0]) THEN board[0][0]
    ELSE IF three(board[0][1], board[1][1], board[2][1]) THEN board[0][1]
    ELSE IF three(board[0][2], board[1][2], board[2][2]) THEN board[0][2]
    ELSE IF three(board[0][0], board[1][1], board[2][2]) THEN board[0][0]
    ELSE IF three(board[0][2], board[1][1], board[2][0]) THEN board[0][2]
    ELSE None

winner(board) ==
    IF three(board[0][0], board[0][1], board[0][2]) THEN board[0][0]
    ELSE IF three(board[1][0], board[1][1], board[1][2]) THEN board[1][0]
    ELSE IF three(board[2][0], board[2][1], board[2][2]) THEN board[2][0]
    ELSE IF three(board[0][0], board[1][0], board[2][0]) THEN board[0][0]
    ELSE IF three(board[0][1], board[1][1], board[2][1]) THEN board[0][1]
    ELSE IF three(board[0][2], board[1][2], board[2][2]) THEN board[0][2]
    ELSE IF three(board[0][0], board[1][1], board[2][2]) THEN board[0][0]
    ELSE IF three(board[0][2], board[1][1], board[2][0]) THEN board[0][2]
    ELSE None

\* EMPTY in row
empty_in(row) == \E j \in Range3 : row[j] = EMPTY

\* terminal without the winner check of lines 106-108.
terminal_full(board) ==
    IF \E i \in Range3 : empty_in(board[i]) THEN FALSE
    ELSE TRUE

terminal(board) ==
    IF winner(board) # None THEN TRUE
    ELSE IF \E i \in Range3 : empty_in(board[i]) THEN FALSE
    ELSE TRUE

\* A win scored 1 whoever the winner is.
utility_unsigned(board) ==
    LET win == winner(board)
    IN  IF win = X THEN 1
        ELSE IF win = O THEN 1
        ELSE 0

\* The scores of the two winners exchanged.
utility_exchanged(board) ==
    LET win == winner(board)
    IN  IF win = X THEN -1
        ELSE IF win = O THEN 1
        ELSE 0

utility(board) ==
    LET win == winner(board)
    IN  IF win = X THEN 1
        ELSE IF win = O THEN -1
        ELSE 0

\* ------------------------------------------------------------------------
\* result (tictactoe.py:52-71), with the objects it touches made explicit.
\* A Python board is a list of references to three row lists.  The heap maps
\* an address to the row stored there; a board object is the triple of the
\* addresses of its rows.  The argument's rows live at addresses 0..2.
\* ------------------------------------------------------------------------
deref(heap, obj) == [i \in Range3 |-> heap[obj[i]]]

\* copy.copy(board): a new outer list holding the same three row objects.
shallowcopy(heap, obj) == [heap |-> heap, obj |-> obj]

\* copy.deepcopy(board): three fresh rows (addresses 3..5) with equal contents.
deepcopy(heap, obj) ==
    [heap |-> [ad \in 0..5 |-> IF ad \in DOMAIN heap THEN heap[ad] ELSE heap[obj[ad - 3]]],
     obj  |-> [i \in Range3 |-> i + 3]]

\* result without the validation of lines 61-63.
result_unchecked(board, action) ==
    LET i == action[1]
        j == action[2]
        heap == [ad \in Range3 |-> board[ad]]
        arg == [r \in Range3 |-> r]
        c == deepcopy(heap, arg)
        new_board == c.obj
        heap2 == [c.heap EXCEPT ![new_board[i]][j] = player(deref(c.heap, arg))]
    IN  [raised |-> None, ret |-> deref(heap2, new_board),
         arg |-> deref(heap2, arg),
         shared |-> {new_board[r] : r \in Range3} \cap {arg[r] : r \in Range3}]

\* result without the assignment of line 69: the copy is returned as it is.
result_no_mark(board, action) ==
    LET i == action[1]
        j == action[2]
        heap == [ad \in Range3 |-> board[ad]]
        arg == [r \in Range3 |-> r]
    IN  IF board[i][j] # EMPTY
        THEN [raised |-> "ValueError", ret |-> NoneObj,
              arg |-> deref(heap, arg), shared |-> {}]
        ELSE LET c == deepcopy(heap, arg)
                 new_board == c.obj
             IN  [raised |-> None, ret |-> deref(c.heap, new_board),
                  arg |-> deref(c.heap, arg),
                  shared |-> {new_board[r] : r \in Range3} \cap {arg[r] : r \in Range3}]

\* result placing the mark of the player to move on the new board, the
\* move already made.
result_next_mark(board, action) ==
    LET i == action[1]
        j == action[2]
        heap == [ad \in Range3 |-> board[ad]]
        arg == [r \in Range3 |-> r]
    IN  IF board[i][j] # EMPTY
        THEN [raised |-> "ValueError", ret |-> NoneObj,
              arg |-> deref(heap, arg), shared |-> {}]
        ELSE LET c == deepcopy(heap, arg)
                 new_board == c.obj
                 heap1 == [c.heap EXCEPT ![new_board[i]][j] = player(deref(c.heap, arg))]
                 heap2 == [c.heap EXCEPT ![new_board[i]][j] = player(deref(heap1, new_board))]
             IN  [raised |-> None, ret |-> deref(heap2, new_board),
                  arg |-> deref(heap2, arg),
                  shared |-> {new_board[r] : r \in Range3} \cap {arg[r] : r \in Range3}]

\* The outcome of one call: the exception raised (None if none), the board
\* returned (None if none), the argument as the caller sees it afterwards,
\* and the row objects the returned board has in common with the argument.
result(board, action) ==
    LET i == action[1]
        j == action[2]
        heap == [ad \in Range3 |-> board[ad]]
        arg == [r \in Range3 |-> r]
    IN  IF board[i][j] # EMPTY
        THEN [raised |-> "ValueError", ret |-> NoneObj,
              arg |-> deref(heap, arg), shared |-> {}]
        ELSE LET c == deepcopy(heap, arg)
                 new_board == c.obj
                 heap2 == [c.heap EXCEPT ![new_board[i]][j] = player(deref(c.heap, arg))]
             IN  [raised |-> None, ret |-> deref(heap2, new_board),
                  arg |-> deref(heap2, arg),
                  shared |-> {new_board[r] : r \in Range3} \cap {arg[r] : r \in Range3}]

\* ------------------------------------------------------------------------
\* minimax (tictactoe.py:134-192): the helpers max_value and min_value.
\*
\* max_value and min_value call each other on the boards one move deeper
\* until a terminal board.  A plain recursive operator is evaluated without
\* memory, once per path of the game tree, so the recursion is tabulated by
\* depth instead: Tree<d> is the set of boards d moves from initial_state(),
\* MaxAt<d> (d even) and MinAt<d> (d odd) hold the value the helper called at
\* depth d returns on each board of Tree<d>, and the helper takes the table
\* of the boards one move deeper, sub, in place of the recursive call.
\* ------------------------------------------------------------------------
\* max(v, ...) and min(v, ...) folded over a for loop: the order is immaterial.
Maximum(S) == CHOOSE v \in S : \A w \in S : w <= v
Minimum(S) == CHOOSE v \in S : \A w \in S : v <= w

\* The fold of max_value started from +infinity.
max_value_from_inf(board, sub) ==
    IF terminal(board) THEN utility(board)
    ELSE Maximum({inf} \cup {sub[result(board, action).ret] : action \in actions(board)})

max_value(board, sub) ==
    IF terminal(board) THEN utility(board)
    ELSE Maximum({-inf} \cup {sub[result(board, action).ret] : action \in actions(board)})

\* The minimising helper folding with max instead of min.
min_value_max(board, sub) ==
    IF terminal(board) THEN utility(board)
    ELSE Maximum({-inf} \cup {sub[result(board, action).ret] : action \in actions(board)})

min_value(board, sub) ==
    IF terminal(board) THEN utility(board)
    ELSE Minimum({inf} \cup {sub[result(board, action).ret] : action \in actions(board)})

\* The boards the helpers are called on one move below the boards of S.
Children(S) ==
    UNION {{result(b, action).ret : action \in actions(b)} : b \in {c \in S : ~terminal(c)}}

Tree0 == {initial_state}
Tree1 == Children(Tree0)
Tree2 == Children(Tree1)
Tree3 == Children(Tree2)
Tree4 == Children(Tree3)
Tree5 == Children(Tree4)
Tree6 == Children(Tree5)
Tree7 == Children(Tree6)
Tree8 == Children(Tree7)
Tree9 == Children(Tree8)

MinAt9 == [b \in Tree9 |-> min_value(b, <<>>)]
MaxAt8 == [b \in Tree8 |-> max_value(b, MinAt9)]
MinAt7 == [b \in Tree7 |-> min_value(b, MaxAt8)]
MaxAt6 == [b \in Tree6 |-> max_value(b, MinAt7)]
MinAt5 == [b \in Tree5 |-> min_value(b, MaxAt6)]
MaxAt4 == [b \in Tree4 |-> max_value(b, MinAt5)]
MinAt3 == [b \in Tree3 |-> min_value(b, MaxAt4)]
MaxAt2 == [b \in Tree2 |-> max_value(b, MinAt3)]
MinAt1 == [b \in Tree1 |-> min_value(b, MaxAt2)]
MaxAt0 == [b \in Tree0 |-> max_value(b, MinAt1)]

\* The number of moves made on a board.
depth(board) == 9 - Cardinality(actions(board))

\* The calls max_value(board) and min_value(board) on a board reached by legal
\* moves: max_value is tabulated at the even depths, min_value at the odd ones.
max_value_of(board) ==
    LET d == depth(board)
    IN  CASE d = 0 -> MaxAt0[board] [] d = 2 -> MaxAt2[board] [] d = 4 -> MaxAt4[board]
          [] d = 6 -> MaxAt6[board] [] d = 8 -> MaxAt8[board]

min_value_of(board) ==
    LET d == depth(board)
    IN  CASE d = 1 -> MinAt1[board] [] d = 3 -> MinAt3[board] [] d = 5 -> MinAt5[board]
          [] d = 7 -> MinAt7[board] [] d = 9 -> MinAt9[board]

\* The helpers as the source writes them, each calling the other.
RECURSIVE max_value_rec(_), min_value_rec(_)

max_value_rec(board) ==
    IF terminal(board) THEN utility(board)
    ELSE Maximum({-inf} \cup
                 {min_value_rec(result(board, action).ret) : action \in actions(board)})

min_value_rec(board) ==
    IF terminal(board) THEN utility(board)
    ELSE Minimum({inf} \cup
                 {max_value_rec(result(board, action).ret) : action \in actions(board)})

VARIABLES
    state,         \* the caller's board: initial_state(), then board = result(board, action)
    pc,            \* "idle": no call in progress; "scan": in minimax's for loop (178 / 186)
    todo,          \* the legal moves the for loop has not yet reached
    action_value,  \* for each legal move, the value line 179 / 187 computes for it
    best_value,    \* minimax's local best_value
    best_action,   \* minimax's local best_action
    call,          \* the last call made: "none", "result" or "minimax"
    move,          \* the action passed to the last result call
    raised,        \* the exception the last result call raised, None if none
    ret,           \* what the last completed call returned
    input,         \* the board passed to the last result call, as it is after the call
    shared         \* the row objects the returned board shares with the one passed

scan_vars == <<todo, action_value, best_value, best_action>>
call_vars == <<call, move, raised, ret, input, shared>>
vars == <<state, pc, todo, action_value, best_value, best_action,
          call, move, raised, ret, input, shared>>

NoCall ==
    /\ pc = "idle"
    /\ todo = {}
    /\ action_value = <<>>
    /\ best_value = None
    /\ best_action = NoneObj
    /\ call = "none"
    /\ move = NoneObj
    /\ raised = None
    /\ ret = NoneObj
    /\ input = NoneObj
    /\ shared = {}

Init == state = initial_state /\ NoCall

\* ------------------------------------------------------------------------
\* Operations
\* ------------------------------------------------------------------------
\* board = result(board, action): on ValueError the caller keeps its board.
ResultCall(action) ==
    LET r == result(state, action)
    IN  /\ pc = "idle"
        /\ call' = "result"
        /\ move' = action
        /\ raised' = r.raised
        /\ ret' = r.ret
        /\ input' = r.arg
        /\ shared' = r.shared
        /\ state' = IF r.raised = None THEN r.ret ELSE r.arg
        /\ UNCHANGED <<pc, scan_vars>>

\* Both branches start from math.inf.
initial_best_inf(current_player) == inf

\* best_value = -math.inf (176), best_value = math.inf (184)
initial_best(current_player) == IF current_player = X THEN -inf ELSE inf

\* minimax(board), lines 141-145 and 174-176 / 184: None on a terminal board, else
\* the for loop over actions(board) starts.  min_value and max_value are pure,
\* so the value of each candidate is fixed here, at the call.
MinimaxCall ==
    /\ pc = "idle"
    /\ call' = "minimax"
    /\ move' = NoneObj
    /\ raised' = None
    /\ ret' = NoneObj
    /\ input' = NoneObj
    /\ shared' = {}
    /\ UNCHANGED state
    /\ IF terminal(state)
       THEN UNCHANGED <<pc, scan_vars>>
       ELSE LET current_player == player(state)
            IN  /\ pc' = "scan"
                /\ todo' = actions(state)
                /\ best_action' = NoneObj
                /\ best_value' = initial_best(current_player)
                /\ action_value' =
                      [action \in actions(state) |->
                          IF current_player = X
                          THEN min_value_of(result(state, action).ret)
                          ELSE max_value_of(result(state, action).ret)]

\* The comparisons not strict: >= and <=.
better_or_equal(current_player, value, best) ==
    IF current_player = X THEN value >= best ELSE value <= best

\* The comparisons of the two branches exchanged.
better_exchanged(current_player, value, best) ==
    IF current_player = X THEN value < best ELSE value > best

\* action_value > best_value (180), action_value < best_value (188)
better(current_player, value, best) ==
    IF current_player = X THEN value > best ELSE value < best

\* One iteration of the for loop, lines 178-182 / 186-190.  A set is iterated
\* in no specified order: the next action is any one not yet iterated.
ScanStep ==
    /\ pc = "scan"
    /\ \E action \in todo :
          /\ todo' = todo \ {action}
          /\ IF better(player(state), action_value[action], best_value)
             THEN /\ best_value' = action_value[action]
                  /\ best_action' = action
             ELSE UNCHANGED <<best_value, best_action>>
    /\ UNCHANGED <<state, pc, action_value, call_vars>>

\* return best_action (line 192), once the loop is exhausted.
MinimaxReturn ==
    /\ pc = "scan"
    /\ todo = {}
    /\ pc' = "idle"
    /\ ret' = best_action
    /\ action_value' = <<>>
    /\ best_value' = None
    /\ best_action' = NoneObj
    /\ UNCHANGED <<state, todo, call, move, raised, input, shared>>

\* ------------------------------------------------------------------------
\* Callers
\* ------------------------------------------------------------------------
\* A game: moves are applied, on any cell, while the board is not terminal, and
\* minimax may be asked for a move at any board.
Play == \E action \in Cells : ~terminal(state) /\ ResultCall(action)

Next == Play \/ MinimaxCall \/ ScanStep \/ MinimaxReturn

Spec == Init /\ [][Next]_vars

\* A legal game: while not terminal(board): board = result(board, action),
\* with action taken from actions(board).
PlayLegal == \E action \in actions(state) : ~terminal(state) /\ ResultCall(action)

SpecGame == Init /\ [][PlayLegal]_vars /\ WF_vars(PlayLegal)

\* One call of result on any board over {X, O, EMPTY}, with any cell.
InitAny == state \in Boards /\ NoCall

AnyCall == \E action \in Cells : call = "none" /\ ResultCall(action)

SpecAny == InitAny /\ [][AnyCall]_vars

\* Self-play: while not terminal(board): board = result(board, minimax(board)).
SelfSearch == ~terminal(state) /\ call # "minimax" /\ MinimaxCall

ApplyBest == pc = "idle" /\ call = "minimax" /\ ret # NoneObj /\ ResultCall(ret)

NextSelf == SelfSearch \/ ScanStep \/ MinimaxReturn \/ ApplyBest

SpecSelf == Init /\ [][NextSelf]_vars /\ WF_vars(NextSelf)
\* ------------------------------------------------------------------------
\* Properties
\* ------------------------------------------------------------------------
\* The tables hold what the recursion returns: on every board reached after
\* three moves or more (the recursion is too slow to evaluate above), the
\* tabulated value is the value of the helper written as in the source.
TablesAgree ==
    (depth(state) >= 3 /\ call = "result" /\ raised = None) =>
        IF depth(state) % 2 = 0
        THEN max_value_of(state) = max_value_rec(state)
        ELSE min_value_of(state) = min_value_rec(state)

\* minimax has returned: the last call made is minimax and it is over.
Returned == pc = "idle" /\ call = "minimax"

\* The value minimax's top level gives to a legal move m of the current board.
ValueAfter(m) ==
    IF player(state) = X
    THEN min_value_of(result(state, m).ret)
    ELSE max_value_of(result(state, m).ret)

\* C1: on every non-terminal board reached by legal moves, whatever the order
\* in which the legal moves are iterated, minimax returns a legal move whose
\* value is the maximum over the legal moves when X is to move and the
\* minimum when O is to move.
C1_BestMoveOptimal ==
    (Returned /\ ~terminal(state)) =>
        /\ ret \in actions(state)
        /\ ValueAfter(ret) =
              IF player(state) = X
              THEN Maximum({ValueAfter(m) : m \in actions(state)})
              ELSE Minimum({ValueAfter(m) : m \in actions(state)})

\* C1 witness: minimax returned a move of value 0 on a board where O to move
\* also has a losing move (value 1) to choose from.
C1_Witness ==
    /\ Returned
    /\ ~terminal(state)
    /\ player(state) = O
    /\ ret \in actions(state)
    /\ ValueAfter(ret) = 0
    /\ \E m \in actions(state) : ValueAfter(m) = 1

\* C3: minimax returns None exactly on the terminal boards.
C3_NoneIffTerminal == Returned => (ret = NoneObj <=> terminal(state))

\* C3 witness: None returned on a board won before it is full.
C3_Witness ==
    /\ Returned
    /\ ret = NoneObj
    /\ winner(state) # None
    /\ actions(state) # {}

\* The board [[X, X, EMPTY], [O, O, EMPTY], [EMPTY, EMPTY, EMPTY]].
Board10 ==
    [i \in Range3 |->
        IF i = 0 THEN [j \in Range3 |-> IF j = 2 THEN EMPTY ELSE X]
        ELSE IF i = 1 THEN [j \in Range3 |-> IF j = 2 THEN EMPTY ELSE O]
        ELSE [j \in Range3 |-> EMPTY]]

\* C10: on that board X is to move and minimax returns (0, 2), whatever the
\* order in which the legal moves are iterated.
C10_WinningMove ==
    state = Board10 => (player(state) = X /\ (Returned => ret = <<0, 2>>))

\* C10 witness: minimax has returned (0, 2) on that board.
C10_Witness == state = Board10 /\ Returned /\ ret = <<0, 2>>
\* C2: self-play by minimax from the initial board ends, and it ends in a
\* draw, whichever of the equally good moves each search returns.
C2_SelfPlayDraw ==
    /\ <>terminal(state)
    /\ [](terminal(state) => utility(state) = 0)

\* C2 witness: self-play has reached a full board with no winner.
C2_Witness ==
    /\ call = "result"
    /\ terminal(state)
    /\ utility(state) = 0
    /\ actions(state) = {}

\* A step that is a call of result which returned a board.
Moved == call' = "result" /\ raised' = None

\* C4: X is to move on the initial board, and every applied move passes the
\* turn to the other mark.
C4_TurnsAlternate ==
    /\ player(state) = X
    /\ [][Moved => player(state') # player(state)]_vars

\* C4 witness: O has moved and X is to move again.
C4_Witness ==
    /\ call = "result"
    /\ raised = None
    /\ input # initial_state
    /\ player(input) = O
    /\ player(state) = X

\* C5: a call of result on an occupied cell raises ValueError, returns no
\* board and leaves the board passed in as it was.
C5_OccupiedRaises ==
    [][(call' = "result" /\ state[move'[1]][move'[2]] # EMPTY) =>
          /\ raised' = "ValueError"
          /\ ret' = NoneObj
          /\ input' = state
          /\ state' = state]_vars

\* C5 witness: result was called on an occupied cell of a board that is not
\* reachable by play (O alone has moved).
C5_Witness ==
    /\ call = "result"
    /\ raised = "ValueError"
    /\ state[move[1]][move[2]] = O
    /\ sum_count(state, X) = 0

\* C6: after a call of result, raising or not, the board passed in holds
\* what it held before, and the board returned shares no row with it.
C6_InputUnchanged ==
    [][call' = "result" => (input' = state /\ shared' = {})]_vars

\* C6 witness: result returned a board that differs from the one passed in.
C6_Witness ==
    /\ call = "result"
    /\ raised = None
    /\ ret # input
    /\ input[move[1]][move[2]] = EMPTY

\* C7: a call of result on an empty cell returns a board equal to the one
\* passed in on the 8 other cells, with the mark of the player to move on the
\* board passed in on the target cell.
C7_MoveApplied ==
    [][(call' = "result" /\ state[move'[1]][move'[2]] = EMPTY) =>
          /\ raised' = None
          /\ \A c \in Cells :
                ret'[c[1]][c[2]] =
                    IF c = move' THEN player(state) ELSE state[c[1]][c[2]]]_vars

\* C7 witness: result placed an O next to marks already on the board.
C7_Witness ==
    /\ call = "result"
    /\ raised = None
    /\ ret[move[1]][move[2]] = O
    /\ player(ret) = X
    /\ sum_count(ret, X) >= 2

\* C8: terminal is true exactly when there is a winner or no legal move.
C8_TerminalIff ==
    terminal(state) <=> (winner(state) # None \/ actions(state) = {})

\* C8 witness: a terminal board with a winner and legal moves left, after a
\* call of result.
C8_Witness ==
    /\ call = "result"
    /\ terminal(state)
    /\ winner(state) # None
    /\ actions(state) # {}

\* C9 as stated: actions is the set of empty cells, and it is empty on every
\* terminal board.
C9_EmptyOnTerminal ==
    /\ \A c \in Cells : c \in actions(state) <=> state[c[1]][c[2]] = EMPTY
    /\ terminal(state) => actions(state) = {}

\* C9 amended: actions is the set of empty cells; on a terminal board it is
\* empty exactly when the board is full.
C9_EmptyCells ==
    /\ \A c \in Cells : c \in actions(state) <=> state[c[1]][c[2]] = EMPTY
    /\ terminal(state) =>
          (actions(state) = {} <=> \A c \in Cells : state[c[1]][c[2]] # EMPTY)

\* C9 witness: a board won before it is full, whose empty cells are its
\* actions.
C9_Witness ==
    /\ call = "result"
    /\ terminal(state)
    /\ winner(state) = X
    /\ Cardinality(actions(state)) = 4
\* The corner cells and the center cell.
CornerOrCenter == {<<0, 0>>, <<0, 2>>, <<2, 0>>, <<2, 2>>, <<1, 1>>}

\* C11 as stated: on the empty board actions is the 9 cells, minimax returns
\* a corner or the center, and the value of the move returned is 0.
C11_CornerOrCenter ==
    state = initial_state =>
        /\ actions(state) = Cells
        /\ Returned => (ret \in CornerOrCenter /\ ValueAfter(ret) = 0)

\* C11 amended: on the empty board actions is the 9 cells, minimax returns one
\* of the 9 cells, the first the loop iterates, and its value is 0.
C11_AnyCell ==
    state = initial_state =>
        /\ actions(state) = Cells
        /\ Cardinality(actions(state)) = 9
        /\ Returned => (ret \in Cells /\ ValueAfter(ret) = 0)

\* C11 witness: minimax has returned the edge cell (0, 1) on the empty board.
C11_Witness == state = initial_state /\ Returned /\ ret = <<0, 1>>

\* The 8 lines of the board: rows, columns, main diagonal, anti-diagonal.
Lines ==
    <<  <<<<0, 0>>, <<0, 1>>, <<0, 2>>>>,
        <<<<1, 0>>, <<1, 1>>, <<1, 2>>>>,
        <<<<2, 0>>, <<2, 1>>, <<2, 2>>>>,
        <<<<0, 0>>, <<1, 0>>, <<2, 0>>>>,
        <<<<0, 1>>, <<1, 1>>, <<2, 1>>>>,
        <<<<0, 2>>, <<1, 2>>, <<2, 2>>>>,
        <<<<0, 0>>, <<1, 1>>, <<2, 2>>>>,
        <<<<0, 2>>, <<1, 1>>, <<2, 0>>>>  >>

\* Line k of the current board is filled with the mark m.
Filled(k, m) == \A n \in 1..3 : state[Lines[k][n][1]][Lines[k][n][2]] = m

\* The lines of the current board filled with one mark, X or O.
FilledLines == {k \in 1..8 : Filled(k, X) \/ Filled(k, O)}

\* No cell of the current board is empty.
Full == \A c \in Cells : state[c[1]][c[2]] # EMPTY

\* C12: utility is 1 exactly when the winner is X, -1 exactly when it is O
\* and 0 otherwise; a full board with no line filled is terminal, has no
\* winner and has utility 0.
C12_UtilityOfWinner ==
    /\ utility(state) = 1 <=> winner(state) = X
    /\ utility(state) = -1 <=> winner(state) = O
    /\ utility(state) = 0 <=> winner(state) = None
    /\ (Full /\ FilledLines = {}) =>
          (terminal(state) /\ winner(state) = None /\ utility(state) = 0)

\* C12 witness: a full board with no line filled.
C12_Witness == Full /\ FilledLines = {} /\ utility(state) = 0 /\ call = "result"

\* C13: on every board reached by legal moves X has as many marks as O, or
\* one more.
C13_CountsBalanced ==
    \/ sum_count(state, X) = sum_count(state, O)
    \/ sum_count(state, X) = sum_count(state, O) + 1

\* C13 witness: a full board, X with 5 marks and O with 4.
C13_Witness == sum_count(state, X) = 5 /\ sum_count(state, O) = 4
\* C14: on every board reached by legal moves, and so at every node of a
\* search started there, result raises nothing for any move of actions.
C14_SearchNeverRaises ==
    \A action \in actions(state) : result(state, action).raised = None

\* C14 witness: minimax is scanning the moves of a board with marks on it,
\* each of them applied by result without an exception.
C14_Witness ==
    /\ pc = "scan"
    /\ depth(state) = 4
    /\ todo = {}
    /\ \A action \in actions(state) : result(state, action).raised = None

\* The moves the for loop has already iterated.
Iterated == actions(state) \ todo

\* The candidate is strictly better than every move iterated before it.
BeatsAll(value) ==
    \A a \in Iterated :
        IF player(state) = X THEN value > action_value[a] ELSE value < action_value[a]

\* While scanning, best_action is an iterated move of the best value so far.
ScanBest ==
    (pc = "scan" /\ Iterated # {}) =>
        /\ best_action \in Iterated
        /\ action_value[best_action] = best_value
        /\ \A a \in Iterated :
              IF player(state) = X THEN action_value[a] <= best_value
              ELSE action_value[a] >= best_value

\* One iteration replaces best_action by the move iterated exactly when its
\* value is strictly better than that of every move before it.
ScanKeepsFirst ==
    (pc = "scan" /\ pc' = "scan") =>
        \A a \in todo \ todo' :
            /\ BeatsAll(action_value[a]) => best_action' = a
            /\ ~BeatsAll(action_value[a]) => best_action' = best_action
            /\ (Iterated # {} /\ action_value[a] = best_value) =>
                  best_action' = best_action

\* C15: the moves are taken one by one from the set of legal moves, the move
\* kept is replaced only by a move strictly better than every move before it
\* (greater for X, smaller for O), never by one of equal value, and the move
\* returned is the one kept when the set is exhausted.
C15_FirstBestKept ==
    /\ []ScanBest
    /\ [][ScanKeepsFirst]_vars
    /\ [][(pc = "scan" /\ pc' = "idle") => (todo = {} /\ ret' = best_action)]_vars

\* C15 witness: a move of the same value as the move kept has been iterated
\* after it started and has not replaced it.
C15_Witness ==
    /\ pc = "scan"
    /\ \E a \in Iterated : a # best_action /\ action_value[a] = best_value

\* The first line in the order of Lines that is filled, 0 when none is.
FirstFilled ==
    IF FilledLines = {} THEN 0
    ELSE CHOOSE k \in FilledLines : \A n \in FilledLines : k <= n

\* C16: on every board over {X, O, EMPTY} winner is the mark of the first
\* filled line, in the order rows, columns, main diagonal, anti-diagonal, and
\* None when no line is filled.
C16_FirstLineWins ==
    winner(state) =
        IF FirstFilled = 0 THEN None
        ELSE state[Lines[FirstFilled][1][1]][Lines[FirstFilled][1][2]]

\* C16 witness: the top row is filled with O and the bottom row with X.
C16_Witness == Filled(1, O) /\ Filled(3, X) /\ winner(state) = O
\* C17 as stated: on every terminal board reached by legal moves at most one
\* of the 8 lines is filled by a single mark.
C17_OneLine == terminal(state) => Cardinality(FilledLines) <= 1

\* C17 amended: on every terminal board reached by legal moves at most two
\* of the 8 lines are filled, and the filled lines hold the same mark.
C17_TwoLinesOneMark ==
    terminal(state) =>
        /\ Cardinality(FilledLines) <= 2
        /\ ~((\E k \in 1..8 : Filled(k, X)) /\ (\E k \in 1..8 : Filled(k, O)))

\* C17 witness: X's last move has filled the top row and the left column.
C17_Witness ==
    /\ terminal(state)
    /\ call = "result" /\ raised = None /\ move = <<0, 0>>
    /\ Filled(1, X) /\ Filled(4, X)

\* C18: on every board reached by legal moves X and O do not both have a
\* filled line, and a winner is the mark that moved last, not the mark to move.
C18_WinnerMovedLast ==
    /\ ~((\E k \in 1..8 : Filled(k, X)) /\ (\E k \in 1..8 : Filled(k, O)))
    /\ winner(state) # None => winner(state) # player(state)

\* C18 witness: O has just won and X would be the one to move.
C18_Witness ==
    /\ call = "result" /\ raised = None
    /\ winner(state) = O /\ player(state) = X

\* C19: every legal game reaches a terminal board, a terminal board holds at
\* least 5 and at most 9 moves, and a board that is not terminal has a legal
\* move.
C19_GameEnds ==
    /\ <>terminal(state)
    /\ [](terminal(state) => (depth(state) >= 5 /\ depth(state) <= 9))
    /\ [](~terminal(state) => actions(state) # {})

\* C19 witness: a game over after 5 moves.
C19_Witness == terminal(state) /\ depth(state) = 5 /\ call = "result"

\* The values utility gives.
Utilities == {-1, 0, 1}

\* C20: at every node of a search, a board reached by legal moves, min_value
\* is called on the boards below a board where X moves, which are terminal
\* or have O to move, max_value on the boards below a board where O moves,
\* which are terminal or have X to move, and the values they return, those
\* the loop compares included, are -1, 0 or 1.
C20_HelpersTurnAndRange ==
    /\ ~terminal(state) =>
          \A action \in actions(state) :
              LET below == result(state, action).ret
              IN  IF player(state) = X
                  THEN /\ terminal(below) \/ player(below) = O
                       /\ min_value_of(below) \in Utilities
                  ELSE /\ terminal(below) \/ player(below) = X
                       /\ max_value_of(below) \in Utilities
    /\ pc = "scan" => \A action \in actions(state) : action_value[action] \in Utilities

\* C20 witness: minimax is scanning for O the values max_value returned, on
\* boards where the game goes on with X to move.
C20_Witness ==
    /\ pc = "scan" /\ player(state) = O /\ todo = {}
    /\ \E action \in actions(state) :
          /\ ~terminal(result(state, action).ret)
          /\ player(result(state, action).ret) = X
          /\ action_value[action] = -1
====
